---- MODULE Spec2Model ----
(***************************************************************************)
(* ImmigrationIQ backend: the session-scoped conversation memory of        *)
(* api/chat_v2.py, the retrying structured extractor of api/classify.py,   *)
(* the vector store of services/vector_store.py and the chunker of         *)
(* services/document_processor.py as state machines.                       *)
(*                                                                         *)
(* All request handlers are `async def` coroutines that never await: the   *)
(* chain is run with the synchronous .invoke(), tenacity sleeps with       *)
(* time.sleep.  A handler therefore keeps the event loop from the moment   *)
(* it starts until it returns or raises; the variable `loop` is the owner  *)
(* of the event loop and `LoopFree` is the guard every handler's first     *)
(* step takes.                                                             *)
(***************************************************************************)
EXTENDS Integers, Sequences, FiniteSets, TLC

(* ------------------------------ bounds -------------------------------- *)
MaxTurns == 2            \* chat turns submitted in one behaviour
MaxInFlight == 2         \* chat requests accepted and not yet answered

SessionIds == {"s1", "s2"}      \* client-chosen session ids
Texts == {"t1", "t2"}           \* user messages
Completions == {"a1", "a2"}     \* texts the completion service returns
Slots == 1..MaxInFlight

VARIABLES
    session_store,  \* chat_v2.session_store: session id -> history object
    heap,           \* the InMemoryChatMessageHistory objects: handle -> messages
    req,            \* chat requests in flight: slot -> request or Nil
    loop,           \* owner of the event loop
    turns,          \* number of chat turns submitted so far
    log,            \* per session: the turns completed since its last clear
    erased,         \* per session: the messages its clears have dropped so far
    lastResp,       \* the response of the chat handler that finished last
    cls,            \* the classify request being served, or the last one served
    clsResp,        \* the response of the last classify request
    embeddings,     \* VectorStoreManager.embeddings: None or the loaded model
    vectorstore,    \* VectorStoreManager._vectorstore: None or a Chroma handle
    disk,           \* the persist directory and the collection stored in it
    vsResp,         \* outcome of the last VectorStoreManager call
    proc,           \* the run of process_all_forms: position and chunk lists
    onePage,        \* one page put through cleaning and splitting
    callers,        \* threads inside a VectorStoreManager method: caller -> position
    created         \* models loaded, handles made, and each handle's embedding function

chatVars == <<session_store, heap, req, turns, log, erased, lastResp>>
clsVars == <<cls, clsResp>>
storeVars == <<embeddings, vectorstore, disk, vsResp>>
threadVars == <<callers, created>>
ragVars == <<storeVars, proc, onePage, threadVars>>
vars == <<session_store, heap, req, loop, turns, log, erased, lastResp, cls, clsResp,
          embeddings, vectorstore, disk, vsResp, proc, onePage,
          callers, created>>

Nil == [pc |-> "none"]
Idle == [kind |-> "idle", slot |-> 0]
NoResp == [op |-> "none", sid |-> "", status |-> 0, message |-> "",
           history_length |-> 0, messages |-> <<>>, total |-> 0, cleared |-> FALSE]

(* ----------------------------- messages ------------------------------- *)
\* `owner` names the request that created the message object: the slot it is
\* served in and the session id it carries.
HumanMessage(content, owner) == [type |-> "human", content |-> content, owner |-> owner]

AIMessage(content, owner) == [type |-> "ai", content |-> content, owner |-> owner]

(* --------------------------- event loop ------------------------------- *)
\* A handler starts only when no other handler is running: the handlers are
\* coroutines without a suspension point.
LoopFreeAwaiting == TRUE

LoopFree == loop.kind = "idle"

(* -------------------------- session registry -------------------------- *)
NewHandle(hp) ==
    CHOOSE h \in 1..(Cardinality(DOMAIN hp) + 1) :
        /\ h \notin DOMAIN hp
        /\ \A g \in 1..(Cardinality(DOMAIN hp) + 1) : g \notin DOMAIN hp => h <= g

\* Mutant: a fresh history on every call.
get_session_history_fresh(store, hp, sid) ==
    LET h == NewHandle(hp)
    IN [store |-> [s \in DOMAIN store \cup {sid} |-> IF s = sid THEN h ELSE store[s]],
        heap |-> hp @@ (h :> <<>>),
        hist |-> h]

\* Mutant: every new session is given one shared history object.
get_session_history_shared(store, hp, sid) ==
    IF sid \in DOMAIN store
    THEN [store |-> store, heap |-> hp, hist |-> store[sid]]
    ELSE IF DOMAIN store # {}
    THEN LET h == store[CHOOSE s \in DOMAIN store : TRUE]
         IN [store |-> store @@ (sid :> h), heap |-> hp, hist |-> h]
    ELSE LET h == NewHandle(hp)
         IN [store |-> store @@ (sid :> h), heap |-> hp @@ (h :> <<>>), hist |-> h]

\* Mutant: a history created on first reference is not put into the registry.
get_session_history_unregistered(store, hp, sid) ==
    IF sid \in DOMAIN store
    THEN [store |-> store, heap |-> hp, hist |-> store[sid]]
    ELSE LET h == NewHandle(hp)
         IN [store |-> store, heap |-> hp @@ (h :> <<>>), hist |-> h]

\* get_session_history: the registered history, created empty on first reference.
get_session_history(store, hp, sid) ==
    IF sid \in DOMAIN store
    THEN [store |-> store, heap |-> hp, hist |-> store[sid]]
    ELSE LET h == NewHandle(hp)
         IN [store |-> store @@ (sid :> h), heap |-> hp @@ (h :> <<>>), hist |-> h]

\* The handles some live reference still names: the registry and the requests
\* that hold a history in their config.
Referenced(store, rq) ==
    {store[s] : s \in DOMAIN store}
        \cup {rq[i].hist : i \in {j \in Slots : rq[j].pc \in {"invoking", "returning"}}}

\* Python frees a history object when its last reference is dropped.
Collect(store, hp, rq) ==
    [h \in DOMAIN hp \cap Referenced(store, rq) |-> hp[h]]

(* ------------------------ RunnableWithMessageHistory ------------------ *)
\* _enter_history: the copy of the history injected into the prompt.
enter_history(msgs) == msgs

\* Mutant: the exchange is saved assistant first.
add_messages_swapped(msgs, human, ai) == (msgs \o <<ai>>) \o <<human>>

\* Mutant: only the human message is saved.
add_messages_human_only(msgs, human, ai) == msgs \o <<human>>

\* _exit_history -> add_messages(input_messages + output_messages).
add_messages(msgs, human, ai) == (msgs \o <<human>>) \o <<ai>>

\* Mutant: the human message is saved although the chain raised.
on_error_saves_input(msgs, human) == msgs \o <<human>>

\* Only on_end is registered as a listener: a run that raises saves nothing.
on_error(msgs, human) == msgs

(* ------------------------------ handlers ------------------------------ *)
Owner(i) == [slot |-> i, sid |-> req[i].sid]

\* A chat request reaches the server.
Submit(sid, text) ==
    /\ turns < MaxTurns
    /\ \E i \in Slots :
        /\ req[i] = Nil
        /\ \A j \in Slots : j < i => req[j] # Nil
        /\ req' = [req EXCEPT ![i] =
                      [pc |-> "pending", sid |-> sid, text |-> text,
                       first |-> sid \notin DOMAIN session_store,
                       hist |-> 0, loaded |-> <<>>, completion |-> ""]]
    /\ turns' = turns + 1
    /\ UNCHANGED <<session_store, heap, loop, log, erased, lastResp>>
    /\ UNCHANGED <<clsVars, ragVars>>

\* chat_v2, lines 122-133 up to the completion call: the config is merged
\* (get_session_history) and the history is loaded into the prompt.
ChatBegin(i) ==
    /\ LoopFree
    /\ req[i].pc = "pending"
    /\ LET g == get_session_history(session_store, heap, req[i].sid)
       IN /\ session_store' = g.store
          /\ heap' = g.heap
          /\ req' = [req EXCEPT ![i].pc = "invoking",
                                ![i].hist = g.hist,
                                ![i].loaded = enter_history(g.heap[g.hist])]
    /\ loop' = [kind |-> "chat", slot |-> i]
    /\ UNCHANGED <<turns, log, erased, lastResp>>
    /\ UNCHANGED <<clsVars, ragVars>>

\* The completion service answers; the on_end listener saves the exchange.
ChatInvokeOk(i, a) ==
    /\ req[i].pc = "invoking"
    /\ heap' = [heap EXCEPT ![req[i].hist] =
                   add_messages(@, HumanMessage(req[i].text, Owner(i)),
                                   AIMessage(a, Owner(i)))]
    /\ req' = [req EXCEPT ![i].pc = "returning", ![i].completion = a]
    /\ UNCHANGED <<session_store, loop, turns, log, erased, lastResp>>
    /\ UNCHANGED <<clsVars, ragVars>>

\* The completion service raises; the exception leaves chat_v2.
ChatInvokeFail(i) ==
    /\ req[i].pc = "invoking"
    /\ req' = [req EXCEPT ![i] = Nil]
    /\ heap' = Collect(session_store,
                       [heap EXCEPT ![req[i].hist] =
                           on_error(@, HumanMessage(req[i].text, Owner(i)))],
                       req')
    /\ loop' = Idle
    /\ lastResp' = [NoResp EXCEPT !.op = "chat", !.sid = req[i].sid, !.status = 500]
    /\ UNCHANGED <<session_store, turns, log, erased>>
    /\ UNCHANGED <<clsVars, ragVars>>

\* chat_v2, lines 136-145: the history is looked up again for its length.
ChatReturn(i) ==
    /\ req[i].pc = "returning"
    /\ LET g == get_session_history(session_store, heap, req[i].sid)
       IN /\ session_store' = g.store
          /\ req' = [req EXCEPT ![i] = Nil]
          /\ heap' = Collect(g.store, g.heap, req')
          /\ lastResp' = [NoResp EXCEPT !.op = "chat", !.sid = req[i].sid,
                                        !.status = 200,
                                        !.message = req[i].completion,
                                        !.history_length = Len(g.heap[g.hist])]
    /\ log' = [log EXCEPT ![req[i].sid] =
                  Append(@, [text |-> req[i].text, completion |-> req[i].completion,
                             owner |-> Owner(i), hist |-> req[i].hist,
                             first |-> req[i].first])]
    /\ loop' = Idle
    /\ UNCHANGED <<turns, erased>>
    /\ UNCHANGED <<clsVars, ragVars>>

\* The client goes away before the handler has run: the handler never runs.
\* Once running, a handler has no suspension point where a cancellation
\* could be delivered.
Cancel(i) ==
    /\ req[i].pc = "pending"
    /\ req' = [req EXCEPT ![i] = Nil]
    /\ lastResp' = [NoResp EXCEPT !.op = "canceled", !.sid = req[i].sid]
    /\ UNCHANGED <<session_store, heap, loop, turns, log, erased>>
    /\ UNCHANGED <<clsVars, ragVars>>

\* Mutant: an unknown id is answered with a not-found error.
get_history_not_found(store, hp, sid) ==
    IF sid \notin DOMAIN store
    THEN [NoResp EXCEPT !.op = "history", !.sid = sid, !.status = 404,
                        !.messages = <<>>, !.total = -1]
    ELSE LET msgs == hp[store[sid]]
             out == [k \in 1..Len(msgs) |->
                        [role |-> IF msgs[k].type = "human" THEN "user" ELSE "assistant",
                         content |-> msgs[k].content]]
         IN [NoResp EXCEPT !.op = "history", !.sid = sid, !.status = 200,
                           !.messages = out, !.total = Len(out)]

\* get_history(session_id): the body of the response.
get_history(store, hp, sid) ==
    IF sid \notin DOMAIN store
    THEN [NoResp EXCEPT !.op = "history", !.sid = sid, !.status = 200,
                        !.messages = <<>>, !.total = -1]
    ELSE LET msgs == hp[store[sid]]
             out == [k \in 1..Len(msgs) |->
                        [role |-> IF msgs[k].type = "human" THEN "user" ELSE "assistant",
                         content |-> msgs[k].content]]
         IN [NoResp EXCEPT !.op = "history", !.sid = sid, !.status = 200,
                           !.messages = out, !.total = Len(out)]

GetHistory(sid) ==
    /\ LoopFree
    /\ lastResp' = get_history(session_store, heap, sid)
    /\ UNCHANGED <<session_store, heap, req, loop, turns, log, erased>>
    /\ UNCHANGED <<clsVars, ragVars>>

\* Mutant: the history is emptied in place and stays registered.
clear_session_keep(store, sid) == store

\* clear_session(session_id): the registry after `del session_store[session_id]`.
clear_session(store, sid) ==
    IF sid \in DOMAIN store
    THEN [s \in DOMAIN store \ {sid} |-> store[s]]
    ELSE store

ClearSession(sid) ==
    /\ LoopFree
    /\ session_store' = clear_session(session_store, sid)
    /\ heap' = Collect(session_store', heap, req)
    /\ log' = [log EXCEPT ![sid] = <<>>]
    /\ erased' = [erased EXCEPT ![sid] =
                     @ + (IF sid \in DOMAIN session_store
                          THEN Len(heap[session_store[sid]]) ELSE 0)]
    /\ lastResp' = [NoResp EXCEPT !.op = "clear", !.sid = sid, !.status = 200,
                                  !.cleared = TRUE]
    /\ UNCHANGED <<req, loop, turns>>
    /\ UNCHANGED <<clsVars, ragVars>>

(* ----------------------- structured extractor ------------------------ *)
StopAfterAttempt == 3    \* stop_after_attempt(3)
WaitMultiplier == 1      \* wait_exponential(multiplier=1, ...)
WaitMin == 2             \* wait_exponential(..., min=2, ...)
WaitMax == 10            \* wait_exponential(..., max=10)
MinItems == 1            \* Field(min_items=1)
MaxItems == 5            \* Field(max_items=5)

\* A text the completion service returns: well-formed JSON or not, and for
\* JSON the values the schema constrains (confidence in hundredths).
Garbage == [json |-> FALSE, category |-> "garbage", nforms |-> 0, nsteps |-> 0, conf |-> 0]
NoOutput == [json |-> FALSE, category |-> "none", nforms |-> 0, nsteps |-> 0, conf |-> 0]
ModelOutputs ==
    {Garbage} \cup
    [json : {TRUE}, category : {"family_based", "tourist"},
     nforms : {0, 1, 5, 6}, nsteps : {0, 1, 5, 6}, conf : {-1, 0, 100, 101}]

\* The categories the field description of immigration_category lists.
Categories == {"family_based", "employment_based", "nonimmigrant", "humanitarian",
               "naturalization", "unknown"}

\* Mutant: the upper bound of confidence is not validated.
SchemaValid_conf_unbounded(out) ==
    /\ out.nforms >= MinItems /\ out.nforms <= MaxItems
    /\ out.nsteps >= MinItems /\ out.nsteps <= MaxItems
    /\ out.conf >= 0

\* ImmigrationAnalysis: the constraints pydantic validates.
SchemaValid(out) ==
    /\ out.nforms >= MinItems /\ out.nforms <= MaxItems
    /\ out.nsteps >= MinItems /\ out.nsteps <= MaxItems
    /\ out.conf >= 0 /\ out.conf <= 100

\* PydanticOutputParser on a completion: "ok", or the OutputParserException
\* for text that is not JSON ("parse") or violates the schema ("schema").
parse(out) ==
    IF ~out.json THEN "parse"
    ELSE IF ~SchemaValid(out) THEN "schema"
    ELSE "ok"

ParseFailures == {"parse", "schema"}

Max(a, b) == IF a >= b THEN a ELSE b
Min(a, b) == IF a <= b THEN a ELSE b

\* Mutant: one attempt too many.
stop_after_attempt_late(n) == n > StopAfterAttempt

\* tenacity stop_after_attempt(3): stop once attempt n has been made.
stop_after_attempt(n) == n >= StopAfterAttempt

\* @retry without retry=: tenacity retries on every exception.
retry_predicate(kind) == TRUE

\* tenacity wait_exponential: multiplier * 2^(n-1), clamped to [min, max].
wait_exponential(n) ==
    Max(Max(0, WaitMin), Min(WaitMultiplier * (2 ^ (n - 1)), WaitMax))

\* Mutant: every exception is answered as a server fault.
exception_status_all_500(kind) == 500

\* classify_situation's except clauses: OutputParserException -> 422,
\* any other exception -> 500.
exception_status(kind) == IF kind \in ParseFailures THEN 422 ELSE 500

NoClsResp == [status |-> 0, kind |-> "none", raw |-> NoOutput, analysis |-> NoOutput]
ClsIdle == [pc |-> "idle", attempt |-> 0, calls |-> 0, kinds |-> <<>>, waits |-> <<>>,
            last |-> NoOutput]

\* classify_situation, lines 122-137: parser, prompt, llm and chain are built.
ClassifyBegin ==
    /\ LoopFree
    /\ cls.pc \in {"idle", "done"}
    /\ cls' = [ClsIdle EXCEPT !.pc = "calling", !.attempt = 1, !.calls = 1]
    /\ clsResp' = NoClsResp
    /\ loop' = [kind |-> "classify", slot |-> 0]
    /\ UNCHANGED <<chatVars, ragVars>>

\* get_llm() raises: line 136 is outside the try, the exception leaves the
\* handler as it is.
ClassifySetupFail ==
    /\ LoopFree
    /\ cls.pc \in {"idle", "done"}
    /\ cls' = [ClsIdle EXCEPT !.pc = "done"]
    /\ clsResp' = [NoClsResp EXCEPT !.status = 500, !.kind = "unhandled"]
    /\ UNCHANGED <<loop, chatVars, ragVars>>

\* Mutant: a failed attempt is followed by the next call at once, with no
\* backoff sleep in between.
AfterAttempt_no_backoff(kind, out) ==
    LET c == [cls EXCEPT !.kinds = Append(@, kind), !.last = out]
    IN IF kind = "ok"
       THEN /\ cls' = [c EXCEPT !.pc = "done"]
            /\ clsResp' = [NoClsResp EXCEPT !.status = 200, !.kind = "ok", !.analysis = out]
            /\ loop' = Idle
       ELSE IF retry_predicate(kind) /\ ~stop_after_attempt(cls.attempt)
       THEN /\ cls' = [c EXCEPT !.pc = "calling", !.attempt = @ + 1, !.calls = @ + 1]
            /\ UNCHANGED <<clsResp, loop>>
       ELSE /\ cls' = [c EXCEPT !.pc = "done"]
            /\ clsResp' = [NoClsResp EXCEPT !.status = exception_status(kind),
                                            !.kind = "http_exception", !.raw = out]
            /\ loop' = Idle

\* The end of attempt cls.attempt with outcome `kind` on completion `out`:
\* the record is returned, or tenacity sleeps and retries, or the last
\* exception is re-raised and classify_situation answers it.
AfterAttempt(kind, out) ==
    LET c == [cls EXCEPT !.kinds = Append(@, kind), !.last = out]
    IN IF kind = "ok"
       THEN /\ cls' = [c EXCEPT !.pc = "done"]
            /\ clsResp' = [NoClsResp EXCEPT !.status = 200, !.kind = "ok", !.analysis = out]
            /\ loop' = Idle
       ELSE IF retry_predicate(kind) /\ ~stop_after_attempt(cls.attempt)
       THEN /\ cls' = [c EXCEPT !.pc = "sleeping",
                                !.waits = Append(@, wait_exponential(cls.attempt))]
            /\ UNCHANGED <<clsResp, loop>>
       ELSE /\ cls' = [c EXCEPT !.pc = "done"]
            /\ clsResp' = [NoClsResp EXCEPT !.status = exception_status(kind),
                                            !.kind = "http_exception", !.raw = out]
            /\ loop' = Idle

\* The completion service returns `out` and the parser runs on it.
AttemptReturns(out) ==
    /\ cls.pc = "calling"
    /\ AfterAttempt(parse(out), out)
    /\ UNCHANGED <<chatVars, ragVars>>

\* The completion service raises (timeout, connection, configuration).
AttemptRaises ==
    /\ cls.pc = "calling"
    /\ AfterAttempt("error", NoOutput)
    /\ UNCHANGED <<chatVars, ragVars>>

\* The backoff sleep ends and the next attempt calls the completion service.
Wake ==
    /\ cls.pc = "sleeping"
    /\ cls' = [cls EXCEPT !.pc = "calling", !.attempt = @ + 1, !.calls = @ + 1]
    /\ UNCHANGED <<clsResp, loop, chatVars, ragVars>>

(* --------------------------- specification ---------------------------- *)
(* -------------------- services/vector_store.py ------------------------- *)
MaxChunks == 22          \* chunks of one form the collection holds at most
DefaultK == 4            \* get_retriever(k = 4)
FetchK == 20             \* candidates the mmr search fetches (fetch_k default)

None == "None"
Forms == {"I-485", "I-130"}                          \* forms that have chunks
FormFilters == {None, "", "I-485", "I-130", "I-765"} \* form_filter arguments
Ks == {1, DefaultK, FetchK + 5}                      \* k arguments
BatchSizes == {0, 2, FetchK + 1}                     \* chunks of a form in one build

NoChunks == [f \in Forms |-> 0]

RECURSIVE SumOver(_, _)
SumOver(c, S) ==
    IF S = {} THEN 0
    ELSE LET f == CHOOSE x \in S : TRUE IN c[f] + SumOver(c, S \ {f})

Total(c) == SumOver(c, Forms)

NoVsResp ==
    [op |-> "init", prev |-> "none", status |-> "ok", existed |-> FALSE,
     k |-> 0, filter |-> None, matching |-> 0, returned |-> NoChunks,
     docs |-> NoChunks]

\* Chroma(persist_directory, collection_name): the client creates the
\* directory when it is missing and gets or creates the collection.
Chroma(d) == [exists |-> TRUE, coll |-> d.coll]

\* _get_embeddings: the model is loaded on first use.
get_embeddings(emb) == IF emb = None THEN "model" ELSE emb

\* _get_vectorstore: the handle is opened on first use.
get_vectorstore(emb, vs, d) ==
    IF vs = None
    THEN [embeddings |-> get_embeddings(emb), vectorstore |-> "handle", disk |-> Chroma(d)]
    ELSE [embeddings |-> emb, vectorstore |-> vs, disk |-> d]

\* Mutant: the form filter is never put into search_kwargs.
get_retriever_unfiltered(k, form_filter) == [k |-> k, filter |-> None]

\* get_retriever: search_kwargs of the mmr retriever; `if form_filter:` is
\* false for None and for the empty string.
get_retriever(k, form_filter) ==
    [k |-> k,
     filter |-> IF form_filter # None /\ form_filter # "" THEN form_filter ELSE None]

\* The entries of the collection a `where` filter on form_number keeps.
Matching(coll, filter) ==
    IF filter = None THEN coll
    ELSE [f \in Forms |-> IF f = filter THEN coll[f] ELSE 0]

\* Chroma.max_marginal_relevance_search: fetch_k nearest matching entries are
\* fetched, then k of them are selected.  Which entries are nearest depends on
\* the embeddings: every choice of that many distinct matching entries, given
\* as the number taken of each of the two forms, is a possible result.
max_marginal_relevance_search(coll, kw) ==
    LET m == Matching(coll, kw.filter)
        fetched == Min(FetchK, Total(m))
        n == Min(kw.k, fetched)
        g == CHOOSE f \in Forms : TRUE
        splits == {[f \in Forms |-> IF f = g THEN a ELSE n - a] : a \in 0..n}
    IN  {r \in splits : \A f \in Forms : r[f] <= m[f]}

\* Mutant: cleanup drops the model and keeps the index handle.
cleanup_keeps_handle == [embeddings |-> None, vectorstore |-> vectorstore]

\* cleanup
cleanup == [embeddings |-> None, vectorstore |-> None]

\* Chroma.from_documents(documents, persist_directory, collection_name): the
\* collection of that name at the directory is opened, or created when there
\* is none, and every document is added to it under a fresh id.
from_documents(d, docs) ==
    [exists |-> TRUE, coll |-> [f \in Forms |-> d.coll[f] + docs[f]]]

\* build_index
BuildIndex(docs) ==
    /\ \A f \in Forms : disk.coll[f] + docs[f] <= MaxChunks
    /\ embeddings' = get_embeddings(embeddings)
    /\ vectorstore' = "handle"
    /\ disk' = from_documents(disk, docs)
    /\ vsResp' = [NoVsResp EXCEPT !.op = "build", !.prev = vsResp.op,
                                  !.existed = disk.exists, !.docs = docs]
    /\ UNCHANGED <<chatVars, loop, clsVars, proc, onePage, threadVars>>

\* load_index
LoadIndex ==
    LET g == get_vectorstore(embeddings, vectorstore, disk) IN
    /\ embeddings' = g.embeddings
    /\ vectorstore' = g.vectorstore
    /\ disk' = g.disk
    /\ vsResp' = [NoVsResp EXCEPT !.op = "load", !.prev = vsResp.op,
                                  !.existed = disk.exists]
    /\ UNCHANGED <<chatVars, loop, clsVars, proc, onePage, threadVars>>

\* similarity_search: get_retriever, then retriever.invoke(query).
SimilaritySearch(k, form_filter) ==
    LET g == get_vectorstore(embeddings, vectorstore, disk)
        kw == get_retriever(k, form_filter)
    IN  /\ embeddings' = g.embeddings
        /\ vectorstore' = g.vectorstore
        /\ disk' = g.disk
        /\ \E r \in max_marginal_relevance_search(g.disk.coll, kw) :
              vsResp' = [op |-> "query", prev |-> vsResp.op, status |-> "ok",
                         existed |-> disk.exists, k |-> k, filter |-> form_filter,
                         matching |-> Total(Matching(g.disk.coll, get_retriever(k, form_filter).filter)),
                         returned |-> r, docs |-> NoChunks]
        /\ UNCHANGED <<chatVars, loop, clsVars, proc, onePage, threadVars>>

\* cleanup, called by the atexit hook or by a caller.
Cleanup ==
    /\ embeddings' = cleanup.embeddings
    /\ vectorstore' = cleanup.vectorstore
    /\ vsResp' = [NoVsResp EXCEPT !.op = "cleanup", !.prev = vsResp.op,
                                  !.existed = disk.exists]
    /\ UNCHANGED <<disk, chatVars, loop, clsVars, proc, onePage, threadVars>>

(* ------------------ services/document_processor.py --------------------- *)
chunk_size == 800        \* RecursiveCharacterTextSplitter(chunk_size=800)
chunk_overlap == 150     \* RecursiveCharacterTextSplitter(chunk_overlap=150)
MinPageLen == 50         \* len(cleanned_text.strip()) < 50: the page is skipped
HeaderLen == 34          \* characters of one running header, e.g.
                         \* "Form I-485 Instructions (01/01/24)"

\* A text is a sequence of runs [k, n]: n characters of kind k, where "nl" is
\* a newline, "sp" a space, "x" a character that is neither whitespace nor
\* part of a separator, and "hdr" one match of the running-header pattern.
\* Adjacent runs of one kind are merged, except headers.
Run(k, n) == [k |-> k, n |-> n]
Whitespace == {"nl", "sp"}

Cat(a, b) ==
    IF a = <<>> THEN b
    ELSE IF b = <<>> THEN a
    ELSE IF a[Len(a)].k = b[1].k /\ b[1].k # "hdr"
         THEN SubSeq(a, 1, Len(a) - 1)
              \o <<Run(b[1].k, a[Len(a)].n + b[1].n)>>
              \o SubSeq(b, 2, Len(b))
         ELSE a \o b

RECURSIVE CatAll(_)
CatAll(ts) == IF ts = <<>> THEN <<>> ELSE Cat(ts[1], CatAll(Tail(ts)))

RECURSIVE TextLen(_)
TextLen(t) == IF t = <<>> THEN 0 ELSE t[1].n + TextLen(Tail(t))

\* t[a:b], character offsets from 0.
RECURSIVE Slice(_, _, _)
Slice(t, a, b) ==
    IF t = <<>> \/ b <= 0 \/ a >= b THEN <<>>
    ELSE LET n == t[1].n
             lo == Max(a, 0)
             hi == Min(b, n)
             rest == Slice(Tail(t), a - n, b - n)
         IN  IF lo < hi THEN Cat(<<Run(t[1].k, hi - lo)>>, rest) ELSE rest

\* str.strip()
RECURSIVE lstrip(_)
lstrip(t) ==
    IF t # <<>> /\ t[1].k \in Whitespace THEN lstrip(Tail(t)) ELSE t

RECURSIVE rstrip(_)
rstrip(t) ==
    IF t # <<>> /\ t[Len(t)].k \in Whitespace
    THEN rstrip(SubSeq(t, 1, Len(t) - 1)) ELSE t

strip(t) == rstrip(lstrip(t))

\* re.sub(r'\n{3,}', '\n\n', text)
collapse_newlines(t) ==
    [i \in 1..Len(t) |-> IF t[i].k = "nl" /\ t[i].n >= 3 THEN Run("nl", 2) ELSE t[i]]

\* re.sub(r'Form [A-Z]-\d+ Instructions \(\d{2}/\d{2}/\d{2}\)', '', text):
\* the matches are taken out and what stood around them becomes adjacent.
RECURSIVE remove_headers(_)
remove_headers(t) ==
    IF t = <<>> THEN <<>>
    ELSE IF t[1].k = "hdr" THEN remove_headers(Tail(t))
    ELSE Cat(<<t[1]>>, remove_headers(Tail(t)))

\* Mutant: the running header is left in the text.
clean_uscis_text_keep_header(text) == strip(collapse_newlines(text))

\* _clean_uscis_text
clean_uscis_text(text) == strip(remove_headers(collapse_newlines(text)))

\* The separators of the splitter: "\n\n", "\n", ". ", " ", "".  A separator
\* is q characters of kind k; ". " never occurs in a text of the model and
\* the last one, the empty string, splits between all characters.
separators ==
    << [k |-> "nl", q |-> 2], [k |-> "nl", q |-> 1], [k |-> "dot", q |-> 2],
       [k |-> "sp", q |-> 1], [k |-> "", q |-> 0] >>

\* re.search(separator, text)
Contains(t, sep) == \E i \in 1..Len(t) : t[i].k = sep.k /\ t[i].n >= sep.q

\* _split_text_with_regex with keep_separator=True: the text is cut before
\* every occurrence of the separator, each piece but the first starts with
\* the separator, and empty pieces are dropped.  `cur` is the piece being
\* collected.
RECURSIVE split_text_with_regex(_, _, _)
split_text_with_regex(t, sep, cur) ==
    IF t = <<>> THEN (IF cur = <<>> THEN <<>> ELSE <<cur>>)
    ELSE IF t[1].k = sep.k /\ t[1].n >= sep.q
    THEN LET s == t[1].n \div sep.q
             r == t[1].n % sep.q
         IN  (IF cur = <<>> THEN <<>> ELSE <<cur>>)
             \o [i \in 1..(s - 1) |-> <<Run(sep.k, sep.q)>>]
             \o split_text_with_regex(Tail(t), sep, <<Run(sep.k, sep.q + r)>>)
    ELSE split_text_with_regex(Tail(t), sep, Cat(cur, <<t[1]>>))

\* _join_docs with separator "": the pieces joined and stripped, in a
\* sequence that is empty when nothing is left (None).
join_docs(docs) ==
    LET text == strip(CatAll(docs)) IN IF text = <<>> THEN <<>> ELSE <<text>>

\* The while loop of _merge_splits: pieces are dropped from the front of
\* current_doc until the overlap is small enough and the next piece fits.
RECURSIVE drop_front(_, _, _)
drop_front(current_doc, total, len) ==
    IF total > chunk_overlap \/ (total + len > chunk_size /\ total > 0)
    THEN drop_front(Tail(current_doc), total - TextLen(current_doc[1]), len)
    ELSE [current_doc |-> current_doc, total |-> total]

\* _merge_splits(splits, separator=""): pieces are packed greedily into
\* documents of at most chunk_size characters.
RECURSIVE merge_splits(_, _, _)
merge_splits(splits, current_doc, total) ==
    IF splits = <<>> THEN join_docs(current_doc)
    ELSE LET d == splits[1]
             len == TextLen(d)
         IN  IF total + len > chunk_size /\ current_doc # <<>>
             THEN LET kept == drop_front(current_doc, total, len)
                  IN  join_docs(current_doc)
                      \o merge_splits(Tail(splits), Append(kept.current_doc, d),
                                      kept.total + len)
             ELSE merge_splits(Tail(splits), Append(current_doc, d), total + len)

\* _merge_splits of the single characters of t: consecutive windows of
\* chunk_size characters that start chunk_size - chunk_overlap apart.
RECURSIVE merge_characters(_, _)
merge_characters(t, from) ==
    IF from + chunk_size >= TextLen(t)
    THEN join_docs(<<Slice(t, from, TextLen(t))>>)
    ELSE join_docs(<<Slice(t, from, from + chunk_size)>>)
         \o merge_characters(t, from + chunk_size - chunk_overlap)

\* RecursiveCharacterTextSplitter._split_text(text, separators[lvl:])
RECURSIVE split_text(_, _)
RECURSIVE split_pieces(_, _, _)
split_text(text, lvl) ==
    LET j == CHOOSE j \in lvl..Len(separators) :
                 /\ separators[j].k = "" \/ Contains(text, separators[j])
                 /\ \A i \in lvl..(j - 1) :
                        separators[i].k # "" /\ ~Contains(text, separators[i])
    IN  IF separators[j].k = ""
        THEN merge_characters(text, 0)
        ELSE split_pieces(split_text_with_regex(text, separators[j], <<>>), <<>>, j + 1)

\* The loop of _split_text over the pieces: short pieces are collected and
\* merged, a piece of chunk_size or more is split with the next separators.
split_pieces(splits, good_splits, lvl) ==
    IF splits = <<>> THEN merge_splits(good_splits, <<>>, 0)
    ELSE IF TextLen(splits[1]) < chunk_size
    THEN split_pieces(Tail(splits), Append(good_splits, splits[1]), lvl)
    ELSE merge_splits(good_splits, <<>>, 0)
         \o split_text(splits[1], lvl)
         \o split_pieces(Tail(splits), <<>>, lvl)

MaxPages == 2            \* pages of one PDF

\* The page texts the documents of the model are made of.
Header == <<Run("hdr", HeaderLen)>>
BlankLine == <<Run("nl", 2)>>
\* "File this form to apply for a green card."
Sentence ==
    << Run("x", 4), Run("sp", 1), Run("x", 4), Run("sp", 1), Run("x", 4),
       Run("sp", 1), Run("x", 2), Run("sp", 1), Run("x", 5), Run("sp", 1),
       Run("x", 3), Run("sp", 1), Run("x", 1), Run("sp", 1), Run("x", 5),
       Run("sp", 1), Run("x", 5) >>
TwoSentences == CatAll(<<Sentence, <<Run("sp", 1)>>, Sentence>>)
ScenarioPage == CatAll(<<Header, BlankLine, Sentence>>)
LongerPage == CatAll(<<Header, BlankLine, TwoSentences>>)
TwoChunkPage == <<Run("x", 790), Run("nl", 2), Run("x", 60)>>
PageTexts == {Header, ScenarioPage, LongerPage, TwoChunkPage}

\* The PDFs of the directory: the stem of the file name, split at "_", and
\* whether the file can be read as a PDF.
pdf_dir == "data/uscis_pdfs"
Stems == {<<"I-485", "instructions">>, <<"I-130", "instructions">>}
PdfFiles == [stem : Stems, corrupt : BOOLEAN]

\* Path(pdf_dir).glob("*.pdf"): the files in the order the file system lists them.
Listings ==
    {l \in UNION {[1..n -> PdfFiles] : n \in 0..Cardinality(Stems)} :
        \A i, j \in 1..Len(l) : i # j => l[i].stem # l[j].stem}

\* str(pdf_file)
PathOf(f) == <<pdf_dir, f.stem>>

\* pdf_file.stem.split("_")[0]
FormNumberOf(f) == f.stem[1]

\* Mutant: the 0-based page index of the loader is used as it is.
page_number_zero_based(index) == index

\* page.metadata.get("page", 0) + 1
page_number(index) == index + 1

\* f"USCIS Form {form_number} Instructions, Page {page}"
source_label(form_number, page) ==
    <<"USCIS Form ", form_number, " Instructions, Page ", page>>

\* text_splitter.create_documents(texts=[text], metadatas=[metadata])
create_documents(text, metadata) ==
    LET texts == split_text(text, 1)
    IN  [i \in 1..Len(texts) |-> [page_content |-> texts[i], metadata |-> metadata]]

\* The body of the page loop of load_and_chunk: the chunks of one page.
page_chunks(text, index, pdf_path, form_number) ==
    LET cleanned_text == clean_uscis_text(text)
    IN  IF TextLen(strip(cleanned_text)) < MinPageLen
        THEN <<>>
        ELSE create_documents(cleanned_text,
                 [form_number |-> form_number,
                  page |-> page_number(index),
                  source |-> source_label(form_number, page_number(index)),
                  pdf_path |-> pdf_path])

ProcIdle ==
    [pc |-> "idle", files |-> <<>>, i |-> 0, index |-> 0, pages |-> <<>>,
     chunks |-> <<>>, all_chunks |-> <<>>]

\* process_all_forms is called on a directory.
ProcessAllForms(listing) ==
    /\ proc.pc = "idle"
    /\ proc' = [ProcIdle EXCEPT !.pc = "next", !.files = listing, !.i = 1]
    /\ UNCHANGED <<chatVars, loop, clsVars, storeVars, onePage, threadVars>>

\* load_and_chunk: PyPDFLoader(pdf_path).load() returns the pages.
LoadPdf ==
    /\ proc.pc = "next"
    /\ proc.i <= Len(proc.files)
    /\ ~proc.files[proc.i].corrupt
    /\ proc' = [proc EXCEPT !.pc = "pages", !.index = 0, !.pages = <<>>,
                            !.chunks = <<>>]
    /\ UNCHANGED <<chatVars, loop, clsVars, storeVars, onePage, threadVars>>

\* load_and_chunk: the loader raises on a file it cannot read; neither
\* load_and_chunk nor process_all_forms catches the exception.
LoadPdfRaises ==
    /\ proc.pc = "next"
    /\ proc.i <= Len(proc.files)
    /\ proc.files[proc.i].corrupt
    /\ proc' = [proc EXCEPT !.pc = "raised", !.pages = <<>>, !.chunks = <<>>]
    /\ UNCHANGED <<chatVars, loop, clsVars, storeVars, onePage, threadVars>>

\* load_and_chunk: one iteration of the loop over the pages.
ChunkPage(text) ==
    /\ proc.pc = "pages"
    /\ proc.index < MaxPages
    /\ LET f == proc.files[proc.i] IN
       proc' = [proc EXCEPT
                  !.index = proc.index + 1,
                  !.pages = Append(proc.pages, text),
                  !.chunks = proc.chunks
                             \o page_chunks(text, proc.index, PathOf(f), FormNumberOf(f))]
    /\ UNCHANGED <<chatVars, loop, clsVars, storeVars, onePage, threadVars>>

\* load_and_chunk returns and process_all_forms extends all_chunks.
EndOfPdf ==
    /\ proc.pc = "pages"
    /\ proc' = [proc EXCEPT !.pc = "next", !.i = proc.i + 1,
                            !.all_chunks = proc.all_chunks \o proc.chunks]
    /\ UNCHANGED <<chatVars, loop, clsVars, storeVars, onePage, threadVars>>

\* process_all_forms returns all_chunks.
ReturnChunks ==
    /\ proc.pc = "next"
    /\ proc.i > Len(proc.files)
    /\ proc' = [proc EXCEPT !.pc = "returned"]
    /\ UNCHANGED <<chatVars, loop, clsVars, storeVars, onePage, threadVars>>

\* Page texts of up to MaxRuns runs, for the cleaning and splitting of one
\* page on its own.
MaxRuns == 5             \* runs a page text is put together from
RunChoices ==
    {Run("hdr", HeaderLen), Run("nl", 1), Run("nl", 2), Run("x", 20), Run("x", 790)}
RawTexts ==
    UNION {{CatAll([i \in 1..n |-> <<s[i]>>]) : s \in [1..n -> RunChoices]} :
              n \in 0..MaxRuns}

NoPage == [pc |-> "none", raw |-> <<>>, cleaned |-> <<>>, chunks |-> <<>>]

\* load_and_chunk, one iteration of the page loop on the first page of an
\* I-485 PDF whose text is `text`.
CleanAndSplit(text) ==
    /\ onePage.pc = "none"
    /\ LET f == [stem |-> <<"I-485", "instructions">>, corrupt |-> FALSE] IN
       onePage' = [pc |-> "chunked", raw |-> text,
                cleaned |-> clean_uscis_text(text),
                chunks |-> page_chunks(text, 0, PathOf(f), FormNumberOf(f))]
    /\ UNCHANGED <<chatVars, loop, clsVars, storeVars, proc, threadVars>>

(* ------------- services/vector_store.py, callers on threads ------------ *)
\* The methods of VectorStoreManager are plain functions without a lock: a
\* caller on another thread can run between any two reads and writes of
\* self.embeddings and self._vectorstore.  Each caller makes one call.  A
\* model or handle object is named by the caller that created it.
Callers == {"c1", "c2"}
CallerOps == {"build", "load", "query"}
NoCaller == [pc |-> "idle", op |-> "none", emb |-> None, result |-> None]
OneBatch == [f \in Forms |-> 2]      \* the documents a caller builds from

\* A caller enters build_index, load_index or similarity_search.
Call(c, op) ==
    /\ callers[c].pc = "idle"
    /\ callers' = [callers EXCEPT ![c].op = op,
                      ![c].pc = IF op = "build" THEN "emb_check" ELSE "vs_check"]
    /\ UNCHANGED <<embeddings, vectorstore, disk, created>>
    /\ UNCHANGED <<chatVars, loop, clsVars, vsResp, proc, onePage>>

\* _get_vectorstore: `if self._vectorstore is None`.
VsCheck(c) ==
    /\ callers[c].pc = "vs_check"
    /\ callers' = [callers EXCEPT
                      ![c].pc = IF vectorstore = None THEN "emb_check" ELSE "vs_return"]
    /\ UNCHANGED <<embeddings, vectorstore, disk, created>>
    /\ UNCHANGED <<chatVars, loop, clsVars, vsResp, proc, onePage>>

\* _get_embeddings: `if self.embeddings is None`.
EmbCheck(c) ==
    /\ callers[c].pc = "emb_check"
    /\ callers' = [callers EXCEPT
                      ![c].pc = IF embeddings = None THEN "emb_load" ELSE "emb_return"]
    /\ UNCHANGED <<embeddings, vectorstore, disk, created>>
    /\ UNCHANGED <<chatVars, loop, clsVars, vsResp, proc, onePage>>

\* _get_embeddings: the model is loaded and stored in self.embeddings.
EmbLoad(c) ==
    /\ callers[c].pc = "emb_load"
    /\ embeddings' = c
    /\ created' = [created EXCEPT !.loads = @ + 1]
    /\ callers' = [callers EXCEPT ![c].pc = "emb_return"]
    /\ UNCHANGED <<vectorstore, disk>>
    /\ UNCHANGED <<chatVars, loop, clsVars, vsResp, proc, onePage>>

\* _get_embeddings: `return self.embeddings`.
EmbReturn(c) ==
    /\ callers[c].pc = "emb_return"
    /\ callers' = [callers EXCEPT ![c].emb = embeddings, ![c].pc = "vs_open"]
    /\ UNCHANGED <<embeddings, vectorstore, disk, created>>
    /\ UNCHANGED <<chatVars, loop, clsVars, vsResp, proc, onePage>>

\* _get_vectorstore: a Chroma handle is made with the embedding function the
\* caller got and stored in self._vectorstore; build_index does the same
\* with Chroma.from_documents and returns the handle it made.
VsOpen(c) ==
    /\ callers[c].pc = "vs_open"
    /\ vectorstore' = c
    /\ created' = [created EXCEPT !.opens = @ + 1, !.uses[c] = callers[c].emb]
    /\ IF callers[c].op = "build"
       THEN /\ disk' = from_documents(disk, OneBatch)
            /\ callers' = [callers EXCEPT ![c].pc = "done", ![c].result = vectorstore']
       ELSE /\ disk' = Chroma(disk)
            /\ callers' = [callers EXCEPT ![c].pc = "vs_return"]
    /\ UNCHANGED embeddings
    /\ UNCHANGED <<chatVars, loop, clsVars, vsResp, proc, onePage>>

\* _get_vectorstore: `return self._vectorstore`.
VsReturn(c) ==
    /\ callers[c].pc = "vs_return"
    /\ callers' = [callers EXCEPT ![c].pc = "done", ![c].result = vectorstore]
    /\ UNCHANGED <<embeddings, vectorstore, disk, created>>
    /\ UNCHANGED <<chatVars, loop, clsVars, vsResp, proc, onePage>>

Init ==
    /\ session_store = <<>>
    /\ heap = <<>>
    /\ req = [i \in Slots |-> Nil]
    /\ loop = Idle
    /\ turns = 0
    /\ log = [s \in SessionIds |-> <<>>]
    /\ erased = [s \in SessionIds |-> 0]
    /\ lastResp = NoResp
    /\ cls = ClsIdle
    /\ clsResp = NoClsResp
    /\ embeddings = None
    /\ vectorstore = None
    /\ disk = [exists |-> FALSE, coll |-> NoChunks]
    /\ vsResp = NoVsResp
    /\ proc = ProcIdle
    /\ onePage = NoPage
    /\ callers = [c \in Callers |-> NoCaller]
    /\ created = [loads |-> 0, opens |-> 0, uses |-> [c \in Callers |-> None]]

NextChat ==
    \/ \E sid \in SessionIds, text \in Texts : Submit(sid, text)
    \/ \E i \in Slots : ChatBegin(i)
    \/ \E i \in Slots, a \in Completions : ChatInvokeOk(i, a)
    \/ \E i \in Slots : ChatInvokeFail(i)
    \/ \E i \in Slots : ChatReturn(i)
    \/ \E i \in Slots : Cancel(i)
    \/ \E sid \in SessionIds : GetHistory(sid)
    \/ \E sid \in SessionIds : ClearSession(sid)

SpecChat == Init /\ [][NextChat]_vars

NextClassify ==
    \/ ClassifyBegin
    \/ ClassifySetupFail
    \/ \E out \in ModelOutputs : AttemptReturns(out)
    \/ AttemptRaises
    \/ Wake

SpecClassify == Init /\ [][NextClassify]_vars

NextStore ==
    \/ \E docs \in [Forms -> BatchSizes] : BuildIndex(docs)
    \/ LoadIndex
    \/ \E k \in Ks, form_filter \in FormFilters : SimilaritySearch(k, form_filter)
    \/ Cleanup

SpecStore == Init /\ [][NextStore]_vars

NextIngest ==
    \/ \E listing \in Listings : ProcessAllForms(listing)
    \/ LoadPdf
    \/ LoadPdfRaises
    \/ \E text \in PageTexts : ChunkPage(text)
    \/ EndOfPdf
    \/ ReturnChunks

SpecIngest == Init /\ [][NextIngest]_vars

NextPage == \E text \in RawTexts : CleanAndSplit(text)

SpecPage == Init /\ [][NextPage]_vars

NextThreads ==
    \/ \E c \in Callers, op \in CallerOps : Call(c, op)
    \/ \E c \in Callers : VsCheck(c)
    \/ \E c \in Callers : EmbCheck(c)
    \/ \E c \in Callers : EmbLoad(c)
    \/ \E c \in Callers : EmbReturn(c)
    \/ \E c \in Callers : VsOpen(c)
    \/ \E c \in Callers : VsReturn(c)

SpecThreads == Init /\ [][NextThreads]_vars

Next == NextChat \/ NextClassify \/ NextStore \/ NextIngest \/ NextPage \/ NextThreads

Spec == Init /\ [][Next]_vars

(* ------------------------- derived state functions -------------------- *)
\* What a client reads for a session right now.
ReadNow(sid) == get_history(session_store, heap, sid).messages

\* What a client reads for a session after the step.
ReadNext(sid) == get_history(session_store', heap', sid).messages

\* The role and content of stored messages, as get_history reports them.
Shown(msgs) ==
    [k \in 1..Len(msgs) |->
        [role |-> IF msgs[k].type = "human" THEN "user" ELSE "assistant",
         content |-> msgs[k].content]]

\* The exchanges of a sequence of completed turns, human text then completion.
FlatLog(l) ==
    [k \in 1..(2 * Len(l)) |->
        IF k % 2 = 1
        THEN [role |-> "user", content |-> l[(k + 1) \div 2].text]
        ELSE [role |-> "assistant", content |-> l[k \div 2].completion]]

\* The number of entries of lg over the sessions S.
RECURSIVE SumLen(_, _)
SumLen(lg, S) ==
    IF S = {} THEN 0
    ELSE LET s == CHOOSE x \in S : TRUE IN Len(lg[s]) + SumLen(lg, S \ {s})

InFlight(i) == req[i].pc \in {"pending", "invoking", "returning"}

Holding(i) == req[i].pc \in {"invoking", "returning"}

\* A step of clear_session / of get_history (or a stuttering step after one):
\* no chat request moves and the last response is the handler's.
ClearStep == loop = Idle /\ loop' = Idle /\ req' = req /\ turns' = turns
             /\ lastResp'.op = "clear"

ReadStep == loop = Idle /\ loop' = Idle /\ req' = req /\ turns' = turns
            /\ lastResp'.op = "history"

(* ------------------------------- claims ------------------------------- *)
\* C1: reading a session returns, for the n turns completed on it since it
\* was last cleared (never, for a session never cleared), exactly 2n messages
\* alternating human (reported with role "user") and assistant, the i-th
\* human content being the i-th turn's text and the assistant content that
\* turn's completion; the count is even.
C1_ReadReturnsCompletedTurns ==
    lastResp.op = "history" =>
        /\ lastResp.messages = FlatLog(log[lastResp.sid])
        /\ Len(lastResp.messages) = 2 * Len(log[lastResp.sid])
        /\ Len(lastResp.messages) % 2 = 0

\* Two turns with different texts completed on one session and then read.
C1_Witness ==
    /\ lastResp.op = "history"
    /\ Len(lastResp.messages) = 4
    /\ lastResp.messages[1].content # lastResp.messages[3].content
    /\ lastResp.messages[2].content # lastResp.messages[4].content

\* C2: an id has one history: every request that holds a history for the id
\* and every turn completed on it since its last clear used the history
\* object the registry stores for the id.
C2_OneHistoryPerSession ==
    /\ \A i \in Slots :
          Holding(i) => /\ req[i].sid \in DOMAIN session_store
                        /\ req[i].hist = session_store[req[i].sid]
    /\ \A sid \in SessionIds : \A k \in 1..Len(log[sid]) :
          /\ sid \in DOMAIN session_store
          /\ log[sid][k].hist = session_store[sid]

\* Two requests were accepted for the same id while it was unseen; one has
\* completed its turn and the other has saved its exchange.
C2_Witness ==
    \E sid \in SessionIds, i \in Slots :
        /\ Len(log[sid]) = 1
        /\ log[sid][1].first
        /\ req[i].pc = "returning"
        /\ req[i].sid = sid
        /\ req[i].first
        /\ req[i].hist = log[sid][1].hist

\* C3: a step that changes a history appends exactly two messages to it, the
\* human message of one request and then the assistant message of the same
\* request; so every history is a sequence of such pairs.
PairsOnly(msgs) ==
    /\ Len(msgs) % 2 = 0
    /\ \A k \in 1..Len(msgs) :
          k % 2 = 1 => /\ msgs[k].type = "human"
                       /\ msgs[k + 1].type = "ai"
                       /\ msgs[k].owner = msgs[k + 1].owner

C3_TurnAppendsPairAtomically ==
    [][ /\ \A h \in DOMAIN heap \cap DOMAIN heap' :
              heap'[h] # heap[h] =>
                  /\ Len(heap'[h]) = Len(heap[h]) + 2
                  /\ SubSeq(heap'[h], 1, Len(heap[h])) = heap[h]
                  /\ \E i \in Slots :
                        /\ req[i].pc = "invoking"
                        /\ req[i].hist = h
                        /\ heap'[h][Len(heap[h]) + 1] = HumanMessage(req[i].text, Owner(i))
                        /\ heap'[h][Len(heap[h]) + 2].type = "ai"
                        /\ heap'[h][Len(heap[h]) + 2].owner = Owner(i)
        /\ \A h \in DOMAIN heap' : PairsOnly(heap'[h]) ]_vars

\* Two requests on one session were in flight together and both exchanges
\* are in its history.
C3_Witness ==
    \E sid \in DOMAIN session_store :
        /\ Len(heap[session_store[sid]]) = 4
        /\ heap[session_store[sid]][1].owner.slot # heap[session_store[sid]][3].owner.slot

\* C4: a turn that fails, or that is canceled before it runs, leaves what a
\* client reads for its session as it was before the turn; no history ever
\* ends with a human message.
NoDanglingHuman ==
    \A h \in DOMAIN heap :
        heap[h] = <<>> \/ heap[h][Len(heap[h])].type = "ai"

LastKind == cls.kinds[Len(cls.kinds)]

C5_ThreeAttemptsThenFail ==
    /\ cls.calls <= 3
    /\ Len(cls.kinds) <= 3
    /\ (cls.pc = "done" /\ cls.kinds # <<>>
            /\ \A k \in 1..Len(cls.kinds) : cls.kinds[k] \in ParseFailures)
       => /\ cls.calls = 3
          /\ Len(cls.kinds) = 3
          /\ clsResp.status # 200
          /\ clsResp.kind # "ok"
    /\ (cls.pc = "done" /\ cls.kinds # <<>> /\ LastKind = "ok")
       => /\ cls.calls = Len(cls.kinds)
          /\ \A k \in 1..(Len(cls.kinds) - 1) : cls.kinds[k] # "ok"
          /\ clsResp.status = 200
          /\ clsResp.analysis = cls.last
          /\ parse(clsResp.analysis) = "ok"

\* Three attempts returned text that is not JSON and the call has failed.
C5_Witness ==
    /\ cls.pc = "done"
    /\ cls.kinds = <<"parse", "parse", "parse">>
    /\ cls.calls = 3
    /\ clsResp.status = 422

\* C6: an attempt that fails for a reason other than a parse failure is the
\* last attempt of its call: the call is over and no completion call follows.
C6_OnlyParseFailureRetried ==
    \A k \in 1..Len(cls.kinds) :
        cls.kinds[k] = "error" =>
            /\ k = Len(cls.kinds)
            /\ cls.pc = "done"
            /\ cls.calls = k

\* C7: a call whose final attempt ends in a parse or schema failure is
\* answered by an HTTPException with status 422 that carries the text of
\* that attempt; status 500 answers only calls that did not end in a parse
\* failure, and only a failure before the first attempt leaves the handler
\* unhandled.
C7_ParseFailureIs422 ==
    cls.pc = "done" =>
        /\ (cls.kinds # <<>> /\ LastKind \in ParseFailures)
           => /\ clsResp.status = 422
              /\ clsResp.kind = "http_exception"
              /\ clsResp.raw = cls.last
        /\ clsResp.status = 500 => (cls.kinds = <<>> \/ LastKind = "error")
        /\ clsResp.kind = "unhandled" => cls.kinds = <<>>

\* The third attempt returned JSON that violates the schema, after two
\* attempts that failed otherwise.
C7_Witness ==
    /\ cls.pc = "done"
    /\ Len(cls.kinds) = 3
    /\ cls.kinds[1] = "error"
    /\ LastKind = "schema"
    /\ clsResp.status = 422
    /\ clsResp.raw.json
    /\ clsResp.raw.conf > 100

\* C8: after clear_session(id) the id is not registered and reads as empty,
\* the handler answers cleared = true whether or not the id was known, a
\* clear of an unknown id changes neither the registry nor any history, and
\* a turn loads exactly the exchanges completed on its id since the last
\* clear (none, right after one).
C8_ClearRemovesSession ==
    [][ /\ ClearStep =>
              /\ lastResp'.sid \notin DOMAIN session_store'
              /\ ReadNext(lastResp'.sid) = <<>>
              /\ lastResp'.cleared
              /\ lastResp'.status = 200
              /\ lastResp'.sid \notin DOMAIN session_store =>
                    (session_store' = session_store /\ heap' = heap)
        /\ \A i \in Slots :
              req'[i].pc = "invoking" =>
                  Shown(req'[i].loaded) = FlatLog(log'[req'[i].sid]) ]_vars

\* A session that held an exchange was cleared and the next turn on it has
\* loaded its history.
C8_Witness ==
    \E i \in Slots :
        /\ req[i].pc = "invoking"
        /\ erased[req[i].sid] = 2
        /\ req[i].loaded = <<>>
        /\ lastResp.op = "clear"
        /\ lastResp.sid = req[i].sid

\* C9: get_history answers 200 and changes neither the registry nor any
\* history; for an id that is not registered the messages are empty and the
\* id stays unregistered, for a registered id they are all its messages in
\* append order.
C9_ReadIsPure ==
    [][ ReadStep =>
          /\ session_store' = session_store
          /\ heap' = heap
          /\ lastResp'.status = 200
          /\ lastResp'.sid \notin DOMAIN session_store => lastResp'.messages = <<>>
          /\ lastResp'.sid \in DOMAIN session_store =>
                lastResp'.messages = Shown(heap[session_store[lastResp'.sid]]) ]_vars

\* An unknown id was read while another session holds an exchange.
C9_Witness ==
    /\ lastResp.op = "history"
    /\ lastResp.sid \notin DOMAIN session_store
    /\ lastResp.messages = <<>>
    /\ \E sid \in DOMAIN session_store : Len(heap[session_store[sid]]) = 2

\* C10: what a session holds changes only in a step of a request or a clear
\* that names it; every stored message was created by a request naming the
\* session that holds it; and when every submitted turn was a first turn on
\* its own id and has completed, the registry holds exactly one session per
\* turn, each with that turn's human message followed by its assistant
\* message.
Held(store, hp, sid) == IF sid \in DOMAIN store THEN hp[store[sid]] ELSE <<>>

C10_SessionsIsolated ==
    [][ /\ \A sid \in SessionIds :
              (\/ Held(session_store, heap, sid)' # Held(session_store, heap, sid)
               \/ (sid \in DOMAIN session_store) # (sid \in DOMAIN session_store'))
              => \/ \E i \in Slots : InFlight(i) /\ req[i].sid = sid /\ req'[i] # req[i]
                 \/ ClearStep /\ lastResp'.sid = sid
        /\ \A sid \in DOMAIN session_store' :
              \A k \in 1..Len(heap'[session_store'[sid]]) :
                  heap'[session_store'[sid]][k].owner.sid = sid
        /\ ( /\ loop' = Idle
             /\ \A i \in Slots : req'[i] = Nil
             /\ SumLen(log', SessionIds) = turns'
             /\ \A sid \in SessionIds : Len(log'[sid]) <= 1 )
           => /\ Cardinality(DOMAIN session_store') = turns'
              /\ \A sid \in DOMAIN session_store' :
                    /\ Len(heap'[session_store'[sid]]) = 2
                    /\ heap'[session_store'[sid]][1] =
                          HumanMessage(log'[sid][1].text, log'[sid][1].owner)
                    /\ heap'[session_store'[sid]][2] =
                          AIMessage(log'[sid][1].completion, log'[sid][1].owner) ]_vars

\* Two first turns on two distinct unseen ids were in flight together and
\* both have completed.
C10_Witness ==
    /\ loop = Idle
    /\ \A i \in Slots : req[i] = Nil
    /\ \A sid \in SessionIds :
          /\ Len(log[sid]) = 1
          /\ log[sid][1].first
          /\ sid \in DOMAIN session_store
    /\ \E s \in SessionIds, t \in SessionIds :
          log[s][1].owner.slot # log[t][1].owner.slot


\* C11: the history_length a successful chat turn returns is the length of
\* its session's history with the two messages the turn appended: the
\* length the turn loaded plus 2, twice the number of turns completed on the
\* session since its last clear, even and at least 2.
C11_HistoryLengthIsUpdatedCount ==
    [][ \A i \in Slots :
          (req[i].pc = "returning" /\ req'[i] = Nil) =>
              /\ lastResp'.op = "chat"
              /\ lastResp'.status = 200
              /\ lastResp'.history_length = Len(req[i].loaded) + 2
              /\ lastResp'.history_length = Len(Held(session_store', heap', req[i].sid))
              /\ lastResp'.history_length = 2 * Len(log'[req[i].sid])
              /\ lastResp'.history_length % 2 = 0
              /\ lastResp'.history_length >= 2 ]_vars

\* The second turn of a session has returned while another request waits.
C11_Witness ==
    /\ lastResp.op = "chat"
    /\ lastResp.status = 200
    /\ lastResp.history_length = 4
    /\ Len(log[lastResp.sid]) = 2

\* C19: a record classify returns has confidence in [0, 1] (0..100
\* hundredths), 1 to 5 applicable forms and 1 to 5 priority steps; an attempt
\* whose completion violates one of these ends as a parse failure and its
\* record is not returned.
Constrained(out) ==
    /\ out.conf >= 0 /\ out.conf <= 100
    /\ out.nforms >= 1 /\ out.nforms <= 5
    /\ out.nsteps >= 1 /\ out.nsteps <= 5

C19_ReturnedRecordSatisfiesSchema ==
    /\ clsResp.kind = "ok" => Constrained(clsResp.analysis)
    /\ (cls.kinds # <<>> /\ LastKind # "error" /\ ~Constrained(cls.last))
       => /\ LastKind \in ParseFailures
          /\ clsResp.kind # "ok"
          /\ clsResp.status # 200

\* A completion with confidence 1.01 was rejected and the next attempt's
\* record, at the limits of the schema, was returned.
C19_Witness ==
    /\ cls.pc = "done"
    /\ cls.kinds = <<"schema", "ok">>
    /\ clsResp.kind = "ok"
    /\ clsResp.analysis.conf = 100
    /\ clsResp.analysis.nforms = 5
    /\ clsResp.analysis.nsteps = 1

\* C20: the category of a record classify returns is one of the six listed
\* categories.
C20_CategoryInEnumeration ==
    clsResp.kind = "ok" => clsResp.analysis.category \in Categories


\* C12: a load_index on a persist location that does not exist, and a query
\* against a store whose index was never built, end in an error.
C12_NoIndexIsAnError ==
    (vsResp.op \in {"load", "query"} /\ ~vsResp.existed) => vsResp.status = "error"

\* C13: the embedding function and the index handle are uninitialised after
\* construction and after every cleanup, and every build, load or query,
\* also one issued after a cleanup, initialises both and succeeds.
C13_CleanupThenLazyReinit ==
    /\ vsResp.op \in {"init", "cleanup"} =>
          embeddings = None /\ vectorstore = None
    /\ vsResp.op \in {"build", "load", "query"} =>
          /\ vsResp.status = "ok"
          /\ embeddings # None
          /\ vectorstore # None

\* A query issued right after a cleanup found the chunks built before it.
C13_Witness ==
    /\ vsResp.op = "query"
    /\ vsResp.prev = "cleanup"
    /\ vsResp.existed
    /\ Total(vsResp.returned) > 0
    /\ embeddings # None

\* C14: a query with form filter F returns chunks of form F only, however
\* many chunks of other forms the index holds.
C14_FilterRestrictsForm ==
    (vsResp.op = "query" /\ vsResp.filter \notin {None, ""}) =>
        \A f \in Forms : f # vsResp.filter => vsResp.returned[f] = 0

\* A query filtered on I-130 returned I-130 chunks from an index that holds
\* more I-485 chunks than the search fetches.
C14_Witness ==
    /\ vsResp.op = "query"
    /\ vsResp.filter = "I-130"
    /\ vsResp.returned["I-130"] > 0
    /\ disk.coll["I-485"] > FetchK

\* An unfiltered query returned chunks of both forms.
C14_UnfilteredMixesForms ==
    /\ vsResp.op = "query"
    /\ vsResp.filter = None
    /\ \A f \in Forms : vsResp.returned[f] > 0

\* C15: a query for k chunks succeeds and returns min(k, number of entries
\* matching the filter) chunks.
C15_ReturnsMinOfKAndMatching ==
    vsResp.op = "query" =>
        /\ vsResp.status = "ok"
        /\ Total(vsResp.returned) = Min(vsResp.k, vsResp.matching)


\* The directory held one readable I-485 PDF of one page, and the run is over.
OnePageDocument(text) ==
    /\ proc.pc = "returned"
    /\ Len(proc.files) = 1
    /\ FormNumberOf(proc.files[1]) = "I-485"
    /\ proc.pages = <<text>>

\* C16: ingesting the one-page I-485 document "Form I-485 Instructions
\* (01/01/24)", blank line, "File this form to apply for a green card."
\* yields no chunk, because 41 characters remain after cleaning; the same
\* page with a body of 50 characters or more yields exactly 1 chunk, whose
\* source label is 'USCIS Form I-485 Instructions, Page 1'.
C16_ScenarioPageIsBelowThreshold ==
    /\ OnePageDocument(ScenarioPage) =>
          /\ TextLen(clean_uscis_text(ScenarioPage)) = 41
          /\ proc.all_chunks = <<>>
    /\ OnePageDocument(LongerPage) =>
          /\ Len(proc.all_chunks) = 1
          /\ proc.all_chunks[1].metadata.source
               = <<"USCIS Form ", "I-485", " Instructions, Page ", 1>>

\* The scenario document has been ingested.
C16_Witness == OnePageDocument(ScenarioPage)

\* C16 as claimed: the scenario document yields exactly 1 chunk with source
\* label 'USCIS Form I-485 Instructions, Page 1'.
C16_ScenarioYieldsOneChunk ==
    OnePageDocument(ScenarioPage) =>
        /\ Len(proc.all_chunks) = 1
        /\ proc.all_chunks[1].metadata.source
             = <<"USCIS Form ", "I-485", " Instructions, Page ", 1>>

\* C17: a corrupt document of the directory is skipped: process_all_forms
\* does not fail on it, and what it returns holds no chunk of a corrupt
\* document.
C17_CorruptDocumentSkipped ==
    /\ proc.pc # "raised"
    /\ proc.pc = "returned" =>
          \A i \in 1..Len(proc.all_chunks), j \in 1..Len(proc.files) :
              proc.all_chunks[i].metadata.pdf_path = PathOf(proc.files[j])
                  => ~proc.files[j].corrupt

\* The chunks load_and_chunk has collected carry the provenance of their
\* document `f`, in page order.
Provenance(chunks, f) ==
    /\ \A i \in 1..Len(chunks) :
          LET m == chunks[i].metadata IN
          /\ m.form_number = FormNumberOf(f)
          /\ m.pdf_path = PathOf(f)
          /\ m.page \in 1..MaxPages
          /\ m.source = <<"USCIS Form ", m.form_number, " Instructions, Page ", m.page>>
    /\ \A i, j \in 1..Len(chunks) :
          i < j => chunks[i].metadata.page <= chunks[j].metadata.page

\* C18: every chunk of load_and_chunk carries its form_number, a page number
\* of 1 or more, the origin path and the source label 'USCIS Form
\* <form_number> Instructions, Page <page>' of its own form_number and page;
\* the chunks of one document share form_number and path and are in
\* non-decreasing page order.
C18_ChunksCarryProvenance ==
    /\ proc.pc = "pages" => Provenance(proc.chunks, proc.files[proc.i])
    /\ \A i \in 1..Len(proc.all_chunks) :
          LET m == proc.all_chunks[i].metadata IN
          /\ m.page >= 1
          /\ m.source = <<"USCIS Form ", m.form_number, " Instructions, Page ", m.page>>
          /\ \E j \in 1..Len(proc.files) :
                /\ m.form_number = FormNumberOf(proc.files[j])
                /\ m.pdf_path = PathOf(proc.files[j])

\* A document gave two chunks from its first page and one from its second.
C18_Witness ==
    /\ proc.pc = "pages"
    /\ Len(proc.chunks) = 3
    /\ proc.chunks[1].metadata.page = 1
    /\ proc.chunks[2].metadata.page = 1
    /\ proc.chunks[3].metadata.page = 2
    /\ proc.chunks[3].metadata.source
         = <<"USCIS Form ", "I-130", " Instructions, Page ", 2>>


\* C23: the wait after the 1st failed attempt is 2 seconds, the wait after
\* the 2nd failed attempt is 4 seconds, every wait lies between 2 and 10
\* seconds and no wait follows the 3rd attempt.
C23_BackoffIsTwoThenFour ==
    /\ Len(cls.waits) <= 2
    /\ \A i \in 1..Len(cls.waits) :
          /\ cls.waits[i] >= 2 /\ cls.waits[i] <= 10
          /\ cls.waits[i] = (IF i = 1 THEN 2 ELSE 4)

\* C26: the attempts of one classify request are sequential: at most one
\* completion call is in flight, and attempt i+1 is started only when the
\* attempts 1..i have all failed and a backoff wait has followed each.
C26_AttemptsSequential ==
    /\ cls.calls - Len(cls.kinds) \in {0, 1}
    /\ cls.calls - Len(cls.kinds) = 1 <=> cls.pc = "calling"
    /\ cls.pc = "calling" =>
          /\ cls.attempt = cls.calls
          /\ Len(cls.kinds) = cls.attempt - 1
          /\ Len(cls.waits) = cls.attempt - 1
          /\ \A k \in 1..Len(cls.kinds) : cls.kinds[k] # "ok"
    /\ cls.pc = "sleeping" =>
          /\ Len(cls.kinds) = cls.attempt
          /\ Len(cls.waits) = cls.attempt
    /\ [][ cls'.calls > cls.calls /\ cls.calls > 0 /\ cls'.calls # 1
             => cls.pc = "sleeping" /\ cls'.calls = cls.calls + 1 ]_vars

\* The 3rd completion call of a request is in flight after two failed
\* attempts and two waits.
C26_Witness ==
    /\ cls.pc = "calling"
    /\ cls.attempt = 3
    /\ Len(cls.kinds) = 2
    /\ Len(cls.waits) = 2

\* C27: a chat turn that fails on an id with no registered session leaves
\* the session its first reference created: the id is registered with an
\* empty history.  A registered id was referenced by a started turn since
\* its last clear, and its history holds the messages of completed turns
\* only.
C27_FailedTurnLeavesEmptySession ==
    /\ [][ \A i \in Slots :
             (req[i].pc = "invoking" /\ req'[i] = Nil) =>
                 /\ lastResp'.status = 500
                 /\ req[i].sid \in DOMAIN session_store'
                 /\ Held(session_store', heap', req[i].sid) = req[i].loaded ]_vars
    /\ [][ \A sid \in SessionIds :
             (sid \notin DOMAIN session_store /\ sid \in DOMAIN session_store')
                 => \E i \in Slots : /\ req[i].pc = "pending" /\ req[i].sid = sid
                                     /\ req'[i].pc = "invoking"
                                     /\ Held(session_store', heap', sid) = <<>> ]_vars

\* The first turn on s1 failed: s1 is registered, with no message.
C27_Witness ==
    /\ lastResp.op = "chat"
    /\ lastResp.status = 500
    /\ lastResp.sid \in DOMAIN session_store
    /\ log[lastResp.sid] = <<>>
    /\ erased[lastResp.sid] = 0
    /\ Held(session_store, heap, lastResp.sid) = <<>>
    /\ \A i \in Slots : req[i] = Nil

\* C27 as claimed: an id is in the registry only if a turn on it completed
\* since its last clear or a turn on it is being served.
C27_RegistryHoldsCompletedSessionsOnly ==
    \A sid \in DOMAIN session_store :
        \/ log[sid] # <<>>
        \/ \E i \in Slots : Holding(i) /\ req[i].sid = sid


\* C21: after build_index(chunks) the persisted index holds exactly one entry
\* per chunk of chunks, also when the location held an index before.
C21_BuildReplacesIndex ==
    vsResp.op = "build" => \A f \in Forms : disk.coll[f] = vsResp.docs[f]


\* C24: cleaning is idempotent: cleaning a cleaned page text changes
\* nothing, and a cleaned text has no run of 3 or more newlines, no running
\* header and no whitespace at its ends.
C24_CleaningIdempotent ==
    onePage.pc = "chunked" =>
        /\ clean_uscis_text(onePage.cleaned) = onePage.cleaned
        /\ \A i \in 1..Len(onePage.cleaned) :
              /\ onePage.cleaned[i].k # "hdr"
              /\ onePage.cleaned[i].k = "nl" => onePage.cleaned[i].n < 3
        /\ onePage.cleaned # <<>> =>
              /\ onePage.cleaned[1].k \notin Whitespace
              /\ onePage.cleaned[Len(onePage.cleaned)].k \notin Whitespace

\* C25: every chunk of a page has at least 50 characters: a page of fewer
\* than 50 characters after cleaning gives no chunk and the chunks of a
\* longer page are all of 50 characters or more.
C25_ChunksReachThreshold ==
    onePage.pc = "chunked" =>
        /\ TextLen(onePage.cleaned) < 50 => onePage.chunks = <<>>
        /\ \A i \in 1..Len(onePage.chunks) : TextLen(onePage.chunks[i].page_content) >= 50


\* C22: when several callers make the first use of one VectorStoreManager
\* at the same time, the embedding model is loaded once and the index
\* handle is made once, and all callers end up with the same handle and the
\* same embedding function.
C22_InitialisedOnce ==
    /\ created.loads <= 1
    /\ created.opens <= 1
    /\ \A c, d \in Callers :
          (callers[c].pc = "done" /\ callers[d].pc = "done") =>
              /\ callers[c].result = callers[d].result
              /\ created.uses[callers[c].result] = embeddings

====
